---- MODULE Spec2Model ----
\* Model of src/src/window/sdl_window.rs: the SDL window of the simulator, its
\* frame update, and the iterator that drains the SDL event pump into
\* SimulatorEvents.
EXTENDS Integers, Sequences, FiniteSets, TLC

\* ------------------------------------------------------------------ bounds

\* Total number of native events the host platform queues in one behaviour.
MaxEvents == 3

\* ------------------------------------------------------------ native values

\* Option<Keycode>: "None" is an unresolvable key code, anything else Some(k).
NoKeycode == "None"
Keycodes == {"Escape", "A"}

\* Mod bit sets (NOMOD, LSHIFTMOD, LSHIFTMOD | LCTRLMOD).
Mods == {{}, {"LSHIFT"}, {"LSHIFT", "LCTRL"}}

MouseButtons == {"Left", "Right"}
WheelDirections == {"Normal", "Flipped"}

\* Window sizes given to SdlWindow::new.
Sizes == {[width |-> 320, height |-> 240], [width |-> 4, height |-> 2]}

\* Framebuffers handed to update, and the pixels before the first upload.
Frames == {"frameA", "frameB"}
Blank == "blank"

\* create_texture_streaming(RGB24, size.width, size.height)
NewTexture(sz) ==
    [width |-> sz.width, height |-> sz.height, data |-> Blank, pitch |-> 0]

\* Texture::update(None, data, pitch): the whole texture is overwritten.
UploadTexture(tex, data, pitch) == [tex EXCEPT !.data = data, !.pitch = pitch]

\* The injected OutputSettings: each names its output_to_display corrector.
OutputSettingsSet == {"identity", "affine"}

Point(x, y) == [x |-> x, y |-> y]

\* OutputSettings::output_to_display, injected: the identity and an affine map.
output_to_display(output_settings, p) ==
    IF output_settings = "identity"
    THEN p
    ELSE Point(2 * p.x + 7, 3 * p.y - 5)

\* ------------------------------------------------------- sdl2::event::Event

EvQuit == [kind |-> "Quit"]
EvKeyDown(keycode, keymod, repeat) ==
    [kind |-> "KeyDown", keycode |-> keycode, keymod |-> keymod, repeat |-> repeat]
EvKeyUp(keycode, keymod, repeat) ==
    [kind |-> "KeyUp", keycode |-> keycode, keymod |-> keymod, repeat |-> repeat]
EvMouseButtonUp(x, y, mouse_btn) ==
    [kind |-> "MouseButtonUp", x |-> x, y |-> y, mouse_btn |-> mouse_btn]
EvMouseButtonDown(x, y, mouse_btn) ==
    [kind |-> "MouseButtonDown", x |-> x, y |-> y, mouse_btn |-> mouse_btn]
EvMouseMotion(x, y) == [kind |-> "MouseMotion", x |-> x, y |-> y]
EvMouseWheel(x, y, direction) ==
    [kind |-> "MouseWheel", x |-> x, y |-> y, direction |-> direction]
EvFingerDown(finger_id, x, y, pressure) ==
    [kind |-> "FingerDown", finger_id |-> finger_id, x |-> x, y |-> y,
     pressure |-> pressure]
EvFingerMotion(finger_id, x, y, pressure) ==
    [kind |-> "FingerMotion", finger_id |-> finger_id, x |-> x, y |-> y,
     pressure |-> pressure]
EvFingerUp(finger_id, x, y, pressure) ==
    [kind |-> "FingerUp", finger_id |-> finger_id, x |-> x, y |-> y,
     pressure |-> pressure]
\* Any Event variant the match does not name (Window, TextInput, ...).
EvOther(name) == [kind |-> "Other", name |-> name]

\* ------------------------------------------------------------ SimulatorEvent

SimQuit == [kind |-> "Quit"]
SimKeyUp(keycode, keymod, repeat) ==
    [kind |-> "KeyUp", keycode |-> keycode, keymod |-> keymod, repeat |-> repeat]
SimKeyDown(keycode, keymod, repeat) ==
    [kind |-> "KeyDown", keycode |-> keycode, keymod |-> keymod, repeat |-> repeat]
SimMouseButtonUp(mouse_btn, point) ==
    [kind |-> "MouseButtonUp", mouse_btn |-> mouse_btn, point |-> point]
SimMouseButtonDown(mouse_btn, point) ==
    [kind |-> "MouseButtonDown", mouse_btn |-> mouse_btn, point |-> point]
SimMouseWheel(scroll_delta, direction) ==
    [kind |-> "MouseWheel", scroll_delta |-> scroll_delta, direction |-> direction]
SimMouseMove(point) == [kind |-> "MouseMove", point |-> point]
SimTouchStarted(id, point, pressure) ==
    [kind |-> "TouchStarted", id |-> id, point |-> point, pressure |-> pressure]
SimTouchMoved(id, point, pressure) ==
    [kind |-> "TouchMoved", id |-> id, point |-> point, pressure |-> pressure]
\* A finger lift reported under the wrong variant.
SimTouchEndedAsCancelled(id, point, pressure) ==
    [kind |-> "TouchCancelled", id |-> id, point |-> point, pressure |-> pressure]

SimTouchEnded(id, point, pressure) ==
    [kind |-> "TouchEnded", id |-> id, point |-> point, pressure |-> pressure]
SimTouchCancelled(id, point, pressure) ==
    [kind |-> "TouchCancelled", id |-> id, point |-> point, pressure |-> pressure]

\* Option<SimulatorEvent>::None, the value next() returns at the end.
None == [kind |-> "None"]

\* ------------------------------------------------------------ translation

\* An f32 in [0,1] is the record [m |-> m, e |-> e] of its value m / 2^e, with
\* a significand m below 2^24.
F32(m, e) == [m |-> m, e |-> e]

\* Number of bits of a positive integer.
RECURSIVE BitLen(_)
BitLen(n) == IF n = 0 THEN 0 ELSE 1 + BitLen(n \div 2)

\* (f * factor as f32) as i32 for an f32 f in [0,1] and an integer factor below
\* 512: the IEEE product, rounded to a 24-bit significand (nearest, ties to
\* even), then truncated toward zero. The exact product f.m * factor is held as
\* hi * 4096 + lo so that no intermediate value leaves 32 bits.
F32MulTrunc(f, factor) ==
    LET blo == (f.m % 4096) * factor
        hi == (f.m \div 4096) * factor + blo \div 4096
        lo == blo % 4096
    IN  IF hi < 4096
        THEN (hi * 4096 + lo) \div 2^(f.e)
        ELSE LET s == BitLen(hi) - 12
                 q0 == hi * 2^(12 - s) + lo \div 2^s
                 rem == lo % 2^s
                 half == 2^(s - 1)
                 q == IF rem > half \/ (rem = half /\ q0 % 2 = 1) THEN q0 + 1 ELSE q0
             IN  IF f.e >= s THEN q \div 2^(f.e - s) ELSE q * 2^(s - f.e)

\* Both coordinates scaled by the width.
scale_touch_pos_width_only(x, y, size) ==
    Point(F32MulTrunc(x, size.width), F32MulTrunc(y, size.width))

scale_touch_pos(x, y, size) ==
    Point(F32MulTrunc(x, size.width), F32MulTrunc(y, size.height))

\* The pressure rounded to the nearest integer instead of truncated.
PressureToU32Rounded(pressure) == (F32MulTrunc(pressure, 200) + 1) \div 2

\* (pressure * 100.0) as u32
PressureToU32(pressure) == F32MulTrunc(pressure, 100)

\* A key code that is not resolved still yields the event.
KeycodeMapAlways(keycode, ev) == ev

\* Option::map on the key code of a key event.
KeycodeMap(keycode, ev) == IF keycode = NoKeycode THEN None ELSE ev

Return(val) == [ctl |-> "return", val |-> val]
Continue == [ctl |-> "continue"]

\* The wheel delta with its coordinates exchanged.
WheelDeltaSwapped(x, y) == Point(y, x)

\* scroll_delta: Point::new(x, y) of the wheel arm.
WheelDelta(x, y) == Point(x, y)

\* The raw device coordinates, uncorrected.
PointerPointRaw(output_settings, x, y) == Point(x, y)

\* self.output_settings.output_to_display(Point::new(x, y)) of the mouse arms.
PointerPoint(output_settings, x, y) == output_to_display(output_settings, Point(x, y))

\* The pattern with the escape key taken only on a fresh press.
IsQuitPatternFreshPress(event) ==
    \/ event.kind = "Quit"
    \/ event.kind = "KeyDown" /\ event.keycode = "Escape" /\ ~event.repeat

\* The first arm's pattern: Event::Quit { .. } | Event::KeyDown { keycode:
\* Some(Keycode::Escape), .. }.
IsQuitPattern(event) ==
    \/ event.kind = "Quit"
    \/ event.kind = "KeyDown" /\ event.keycode = "Escape"

\* One pass through the match of next() for a polled event, arms tried in
\* order: either the value next() returns at once, or "continue" (poll the
\* next event).
MatchArm(event, output_settings, size) ==
    IF IsQuitPattern(event) THEN Return(SimQuit)
    ELSE CASE event.kind = "KeyDown" ->
            Return(KeycodeMap(event.keycode,
                              SimKeyDown(event.keycode, event.keymod, event.repeat)))
      [] event.kind = "KeyUp" ->
            Return(KeycodeMap(event.keycode,
                              SimKeyUp(event.keycode, event.keymod, event.repeat)))
      [] event.kind = "MouseButtonUp" ->
            Return(SimMouseButtonUp(event.mouse_btn,
                       PointerPoint(output_settings, event.x, event.y)))
      [] event.kind = "MouseButtonDown" ->
            Return(SimMouseButtonDown(event.mouse_btn,
                       PointerPoint(output_settings, event.x, event.y)))
      [] event.kind = "MouseMotion" ->
            Return(SimMouseMove(PointerPoint(output_settings, event.x, event.y)))
      [] event.kind = "MouseWheel" ->
            Return(SimMouseWheel(WheelDelta(event.x, event.y), event.direction))
      [] event.kind = "FingerDown" ->
            Return(SimTouchStarted(event.finger_id,
                       output_to_display(output_settings,
                                         scale_touch_pos(event.x, event.y, size)),
                       PressureToU32(event.pressure)))
      [] event.kind = "FingerMotion" ->
            Return(SimTouchMoved(event.finger_id,
                       output_to_display(output_settings,
                                         scale_touch_pos(event.x, event.y, size)),
                       PressureToU32(event.pressure)))
      [] event.kind = "FingerUp" ->
            Return(SimTouchEnded(event.finger_id,
                       output_to_display(output_settings,
                                         scale_touch_pos(event.x, event.y, size)),
                       PressureToU32(event.pressure)))
      [] OTHER -> Continue

\* The loop with a poll too many: the event behind the one it returns is
\* polled as well, and lost.
RECURSIVE PollLoopDropsNext(_, _, _)
PollLoopDropsNext(pending, output_settings, size) ==
    IF pending = <<>>
    THEN [polled |-> 0, ret |-> None]
    ELSE LET arm == MatchArm(Head(pending), output_settings, size)
         IN  IF arm.ctl = "return"
             THEN [polled |-> IF Len(pending) > 1 THEN 2 ELSE 1, ret |-> arm.val]
             ELSE LET rest == PollLoopDropsNext(Tail(pending), output_settings, size)
                  IN  [polled |-> rest.polled + 1, ret |-> rest.ret]

\* The while-let loop of next() over the pending events `pending`: how many
\* events it polls and the value it returns.
RECURSIVE PollLoop(_, _, _)
PollLoop(pending, output_settings, size) ==
    IF pending = <<>>
    THEN [polled |-> 0, ret |-> None]
    ELSE LET arm == MatchArm(Head(pending), output_settings, size)
         IN  IF arm.ctl = "return"
             THEN [polled |-> 1, ret |-> arm.val]
             ELSE LET rest == PollLoop(Tail(pending), output_settings, size)
                  IN  [polled |-> rest.polled + 1, ret |-> rest.ret]

\* ------------------------------------------------------------------ inputs

\* Native events the host platform queues in the window specification.
QueueEvents ==
    { EvQuit,
      EvKeyDown("Escape", {"LSHIFT"}, TRUE),
      EvKeyDown("A", {}, FALSE),
      EvKeyDown(NoKeycode, {}, FALSE),
      EvMouseMotion(10, 20),
      EvOther("Window") }

RawCoords == {-2, 0, 3}
WheelDeltas == {-1, 0, 2}
FingerIds == {0, 7}

\* The f32 nearest to 0.0, 0.29, 0.5, 0.7, 0.8, 0.999 and 1.0.
F32Zero == F32(0, 0)
F32Dot29 == F32(9730785, 25)
F32Half == F32(1, 1)
F32Dot7 == F32(11744051, 24)
F32Dot8 == F32(13421773, 24)
F32Dot999 == F32(16760439, 24)
F32One == F32(1, 0)

TouchFractions == {F32Zero, F32Half, F32Dot7, F32Dot999, F32One}
Pressures == {F32Zero, F32Dot29, F32Half, F32Dot8, F32Dot999, F32One}

\* Every native event the translation specification feeds to next().
AllNativeEvents ==
    {EvQuit, EvOther("Window"), EvOther("TextInput")}
    \cup {EvKeyDown(k, m, r) : k \in Keycodes \cup {NoKeycode}, m \in Mods, r \in BOOLEAN}
    \cup {EvKeyUp(k, m, r) : k \in Keycodes \cup {NoKeycode}, m \in Mods, r \in BOOLEAN}
    \cup {EvMouseButtonUp(x, y, b) : x \in RawCoords, y \in RawCoords, b \in MouseButtons}
    \cup {EvMouseButtonDown(x, y, b) : x \in RawCoords, y \in RawCoords, b \in MouseButtons}
    \cup {EvMouseMotion(x, y) : x \in RawCoords, y \in RawCoords}
    \cup {EvMouseWheel(x, y, d) : x \in WheelDeltas, y \in WheelDeltas, d \in WheelDirections}
    \cup {EvFingerDown(f, x, y, p) :
            f \in FingerIds, x \in TouchFractions, y \in TouchFractions, p \in Pressures}
    \cup {EvFingerMotion(f, x, y, p) :
            f \in FingerIds, x \in TouchFractions, y \in TouchFractions, p \in Pressures}
    \cup {EvFingerUp(f, x, y, p) :
            f \in FingerIds, x \in TouchFractions, y \in TouchFractions, p \in Pressures}

\* ------------------------------------------------------------------- state

VARIABLES
    size,         \* SdlWindow.size
    queue,        \* the native events pending in SdlWindow.event_pump
    borrow,       \* the RefCell's borrow flag: number of live RefMut
    iters,        \* the live SimulatorEventsIter values
    texture,      \* contents of the streaming texture
    canvas,       \* contents of the canvas back buffer
    screen,       \* the frame last presented
    panicked,     \* "no", or the call that panicked
    arrived,      \* history: every native event ever queued, in order
    totalPolled   \* history: every native event poll_event has returned, in order

vars == <<size, queue, borrow, iters, texture, canvas, screen, panicked,
          arrived, totalPolled>>

NotPulled == [kind |-> "NotPulled"]

\* SdlWindow::new
Init ==
    /\ size \in Sizes
    /\ queue = <<>>
    /\ borrow = 0
    /\ iters = <<>>
    /\ texture = NewTexture(size)
    /\ canvas = Blank
    /\ screen = Blank
    /\ panicked = "no"
    /\ arrived = <<>>
    /\ totalPolled = <<>>

\* The host platform queues one more native event.
Arrive(e) ==
    /\ panicked = "no"
    /\ Len(arrived) < MaxEvents
    /\ queue' = Append(queue, e)
    /\ arrived' = Append(arrived, e)
    /\ UNCHANGED <<size, borrow, iters, texture, canvas, screen, panicked, totalPolled>>

\* A borrow that is never refused.
BorrowMutUnchecked(flag) == TRUE

\* RefCell::borrow_mut succeeds only when nothing is borrowed.
BorrowMutOk(flag) == flag = 0

\* The value SdlWindow::events builds.
NewIter(output_settings) ==
    [ output_settings |-> output_settings,
      size |-> size,
      polled |-> <<>>,
      emitted |-> <<>>,
      ret |-> NotPulled,
      phase |-> "fresh" ]

\* An events() that recreates the streaming texture before handing out the
\* iterator.
EventsResetsTexture(output_settings) ==
    /\ panicked = "no"
    /\ IF BorrowMutOk(borrow)
       THEN /\ borrow' = borrow + 1
            /\ iters' = Append(iters, NewIter(output_settings))
            /\ texture' = NewTexture(size)
            /\ UNCHANGED panicked
       ELSE /\ panicked' = "events"
            /\ UNCHANGED <<borrow, iters, texture>>
    /\ UNCHANGED <<size, queue, canvas, screen, arrived, totalPolled>>

\* SdlWindow::events
Events(output_settings) ==
    /\ panicked = "no"
    /\ IF BorrowMutOk(borrow)
       THEN /\ borrow' = borrow + 1
            /\ iters' = Append(iters, NewIter(output_settings))
            /\ UNCHANGED panicked
       ELSE /\ panicked' = "events"
            /\ UNCHANGED <<borrow, iters>>
    /\ UNCHANGED <<size, queue, texture, canvas, screen, arrived, totalPolled>>

\* The iterator after one call of next() that polled `n` events and returned `r`.
\* polled, emitted and ret record what the calls did; phase is "fresh" before
\* the first call, "draining" until a call returns None, "ended" right after the
\* first None, and "resumed" once next() was called again after that.
AfterNext(it, n, r) ==
    [ it EXCEPT
        !.polled = it.polled \o SubSeq(queue, 1, n),
        !.emitted = IF r = None THEN it.emitted ELSE Append(it.emitted, r),
        !.ret = r,
        !.phase = IF it.phase \in {"ended", "resumed"} THEN "resumed"
                  ELSE IF r = None THEN "ended"
                  ELSE "draining" ]

\* A next() that treats Quit as the end: once the iterator has emitted Quit it
\* returns None without polling.
NextCallFusedOnQuit(it, pending) ==
    IF \E k \in DOMAIN it.emitted : it.emitted[k] = SimQuit
    THEN [polled |-> 0, ret |-> None]
    ELSE PollLoop(pending, it.output_settings, it.size)

\* A next() that suppresses a value equal to the one it returned last: what it
\* returns depends on what it polled before.
NextCallDebounce(it, pending) ==
    LET res == PollLoop(pending, it.output_settings, it.size)
    IN  IF it.emitted # <<>> /\ res.ret = it.emitted[Len(it.emitted)]
        THEN [polled |-> res.polled, ret |-> None]
        ELSE res

\* A fused next(): once it has returned None it returns None for ever, without
\* polling.
NextCallFused(it, pending) ==
    IF it.phase \in {"ended", "resumed"}
    THEN [polled |-> 0, ret |-> None]
    ELSE PollLoop(pending, it.output_settings, it.size)

\* One call of next(&mut self) with `pending` in the event pump: the loop runs
\* with the iterator's own output_settings and size.
NextCall(it, pending) == PollLoop(pending, it.output_settings, it.size)

\* A next() that gives the event pump back as soon as it returns None.
PullReleasesAtEnd(i) ==
    /\ panicked = "no"
    /\ i \in DOMAIN iters
    /\ LET it == iters[i]
           res == NextCall(it, queue)
       IN  /\ queue' = SubSeq(queue, res.polled + 1, Len(queue))
           /\ totalPolled' = totalPolled \o SubSeq(queue, 1, res.polled)
           /\ iters' = [iters EXCEPT ![i] = AfterNext(it, res.polled, res.ret)]
           /\ borrow' = IF res.ret = None THEN 0 ELSE borrow
    /\ UNCHANGED <<size, texture, canvas, screen, panicked, arrived>>

\* SimulatorEventsIter::next on the i-th live iterator.
Pull(i) ==
    /\ panicked = "no"
    /\ i \in DOMAIN iters
    /\ LET it == iters[i]
           res == NextCall(it, queue)
       IN  /\ queue' = SubSeq(queue, res.polled + 1, Len(queue))
           /\ totalPolled' = totalPolled \o SubSeq(queue, 1, res.polled)
           /\ iters' = [iters EXCEPT ![i] = AfterNext(it, res.polled, res.ret)]
    /\ UNCHANGED <<size, borrow, texture, canvas, screen, panicked, arrived>>

\* The sequence of live iterators without the i-th.
RemoveAt(s, i) == SubSeq(s, 1, i - 1) \o SubSeq(s, i + 1, Len(s))

\* A drop that leaks the RefMut: the borrow stays taken.
DropKeepsBorrow(i) ==
    /\ panicked = "no"
    /\ i \in DOMAIN iters
    /\ iters' = RemoveAt(iters, i)
    /\ UNCHANGED <<size, queue, borrow, texture, canvas, screen, panicked, arrived,
                   totalPolled>>

\* Dropping the i-th iterator drops its RefMut, which releases the borrow.
Drop(i) ==
    /\ panicked = "no"
    /\ i \in DOMAIN iters
    /\ iters' = RemoveAt(iters, i)
    /\ borrow' = borrow - 1
    /\ UNCHANGED <<size, queue, texture, canvas, screen, panicked, arrived, totalPolled>>

\* An update that ignores what SDL reports: it goes on to copy and present
\* whatever the texture holds, and returns.
UpdateIgnoresErrors(framebuffer, outcome) ==
    /\ panicked = "no"
    /\ iters = <<>>
    /\ texture' = IF outcome = "upload_err" THEN texture
                  ELSE UploadTexture(texture, framebuffer, size.width * 3)
    /\ canvas' = IF outcome = "copy_err" THEN canvas ELSE texture'.data
    /\ screen' = canvas'
    /\ UNCHANGED <<size, queue, borrow, iters, panicked, arrived, totalPolled>>

\* SdlWindow::update: upload the framebuffer to the texture, copy the texture
\* to the canvas, present; either unwrap panics when SDL reports an error.
Update(framebuffer, outcome) ==
    /\ panicked = "no"
    /\ iters = <<>>       \* &mut self: no iterator borrows the window
    /\ CASE outcome = "upload_err" ->
              /\ panicked' = "update"
              /\ UNCHANGED <<texture, canvas, screen>>
         [] outcome = "copy_err" ->
              /\ texture' = UploadTexture(texture, framebuffer, size.width * 3)
              /\ panicked' = "update"
              /\ UNCHANGED <<canvas, screen>>
         [] OTHER ->
              /\ texture' = UploadTexture(texture, framebuffer, size.width * 3)
              /\ canvas' = texture'.data
              /\ screen' = canvas'
              /\ UNCHANGED panicked
    /\ UNCHANGED <<size, queue, borrow, iters, arrived, totalPolled>>

UpdateOutcomes == {"ok", "upload_err", "copy_err"}

Next ==
    \/ \E e \in QueueEvents : Arrive(e)
    \/ \E s \in OutputSettingsSet : Events(s)
    \/ \E i \in DOMAIN iters : Pull(i)
    \/ \E i \in DOMAIN iters : Drop(i)
    \/ \E f \in Frames, o \in UpdateOutcomes : Update(f, o)

Spec == Init /\ [][Next]_vars

\* ------------------------------------------- translation of single events

\* A window whose event pump holds exactly one native event, any of
\* AllNativeEvents, and no further arrivals.
InitTranslate ==
    /\ size \in Sizes
    /\ \E e \in AllNativeEvents : queue = <<e>> /\ arrived = <<e>>
    /\ borrow = 0
    /\ iters = <<>>
    /\ texture = NewTexture(size)
    /\ canvas = Blank
    /\ screen = Blank
    /\ panicked = "no"
    /\ totalPolled = <<>>

NextTranslate ==
    \/ \E s \in OutputSettingsSet : Events(s)
    \/ \E i \in DOMAIN iters : Pull(i)
    \/ \E i \in DOMAIN iters : Drop(i)

SpecTranslate == InitTranslate /\ [][NextTranslate]_vars

\* ------------------------------------------------- pairs of touch events

\* Touch events of every kind and pressure, at one position.
TouchEvents ==
    {EvFingerDown(7, F32Half, F32Half, p) : p \in Pressures}
    \cup {EvFingerMotion(7, F32Half, F32Half, p) : p \in Pressures}
    \cup {EvFingerUp(7, F32Half, F32Half, p) : p \in Pressures}

\* A window whose event pump holds two touch events and gets no more.
InitTouch ==
    /\ size \in Sizes
    /\ \E e1 \in TouchEvents, e2 \in TouchEvents :
          queue = <<e1, e2>> /\ arrived = <<e1, e2>>
    /\ borrow = 0
    /\ iters = <<>>
    /\ texture = NewTexture(size)
    /\ canvas = Blank
    /\ screen = Blank
    /\ panicked = "no"
    /\ totalPolled = <<>>

SpecTouch == InitTouch /\ [][NextTranslate]_vars

\* ------------------------------------------------ the host's drain loop

\* All sequences over S of length at most n.
RECURSIVE SeqsUpTo(_, _)
SeqsUpTo(S, n) ==
    IF n = 0 THEN {<<>>}
    ELSE LET shorter == SeqsUpTo(S, n - 1)
         IN  shorter \cup {Append(q, e) : q \in shorter, e \in S}

\* A window with a finite native queue and no further arrivals.
InitDrain ==
    /\ size \in Sizes
    /\ queue \in SeqsUpTo(QueueEvents, MaxEvents)
    /\ arrived = queue
    /\ borrow = 0
    /\ iters = <<>>
    /\ texture = NewTexture(size)
    /\ canvas = Blank
    /\ screen = Blank
    /\ panicked = "no"
    /\ totalPolled = <<>>

\* `for event in window.events(&output_settings) { .. }`: the loop calls
\* events() once, then next() until it returns None, then drops the iterator.
DrainStart(output_settings) ==
    /\ iters = <<>>
    /\ Events(output_settings)

DrainStep ==
    /\ iters # <<>>
    /\ iters[1].phase \in {"fresh", "draining"}
    /\ Pull(1)

DrainFinish ==
    /\ iters # <<>>
    /\ iters[1].phase = "ended"
    /\ Drop(1)

NextDrain ==
    \/ \E s \in OutputSettingsSet : DrainStart(s)
    \/ DrainStep
    \/ DrainFinish

\* The loop is synchronous code: it runs until it is done.
SpecDrain == InitDrain /\ [][NextDrain]_vars /\ WF_vars(NextDrain)

\* ------------------------------------------------- vocabulary of the claims

\* A key event whose key code cannot be resolved.
Unresolvable(e) == e.kind \in {"KeyDown", "KeyUp"} /\ e.keycode = NoKeycode

\* A native event that has a translation: of a handled kind, with a key code
\* when it is a key event.
Translates(e) == e.kind # "Other" /\ ~Unresolvable(e)

\* The translation f(e) of a native event that has one.
Translation(e, output_settings, sz) == MatchArm(e, output_settings, sz).val

\* The translations of the events of `evs` that have one, in order.
RECURSIVE Translations(_, _, _)
Translations(evs, output_settings, sz) ==
    IF evs = <<>> THEN <<>>
    ELSE IF Translates(Head(evs))
         THEN <<Translation(Head(evs), output_settings, sz)>>
                  \o Translations(Tail(evs), output_settings, sz)
         ELSE Translations(Tail(evs), output_settings, sz)

\* This step is a call of next() on the i-th iterator.
PullStep(i) == i \in DOMAIN iters /\ Pull(i)

\* This step is the call of next() that ends the drain of the i-th iterator:
\* the first call that returns None.
DrainEnds(i) == PullStep(i) /\ iters[i].phase \in {"fresh", "draining"} /\ iters'[i].ret = None

\* The events a drain had to deal with when it ends: those it polled earlier
\* and those pending at its last call.
DrainInput(i) == iters[i].polled \o queue

\* -------------------------------------------------------------------- C1

\* C1: an unresolvable key event is skipped without ending the drain: when a
\* drain ends and its input held an unresolvable key event, the drain has
\* emitted the translation of every translatable event of its input,
\* those behind the unresolvable one included.
C1_UnresolvableKeySkipped ==
    [][\A i \in DOMAIN iters :
          (DrainEnds(i) /\ \E k \in DOMAIN DrainInput(i) : Unresolvable(DrainInput(i)[k]))
          => iters'[i].emitted
               = Translations(DrainInput(i), iters[i].output_settings, iters[i].size)]_vars

\* -------------------------------------------------------------------- C2

\* C2: whenever a call of next() returns None, the native queue is empty.
C2_EndOnlyWhenQueueEmpty ==
    [][\A i \in DOMAIN iters :
          (PullStep(i) /\ iters'[i].ret = None) => queue' = <<>>]_vars

\* -------------------------------------------------------------------- C3

\* C3: events() called while an iterator is live panics at the call, polls
\* nothing and leaves the native queue as it was; there are never two live
\* iterators holding the event pump.
C3_ExclusiveAccess ==
    /\ [](Len(iters) <= 1)
    /\ [][\A s \in OutputSettingsSet :
            (iters # <<>> /\ Events(s))
            => /\ panicked' = "events"
               /\ queue' = queue
               /\ totalPolled' = totalPolled
               /\ iters' = iters]_vars

\* A second events() call panicked while the first iterator was in mid-drain.
C3_Witness ==
    /\ panicked = "events"
    /\ Len(iters) = 1
    /\ iters[1].phase = "draining"
    /\ queue # <<>>

\* -------------------------------------------------------------------- C4

\* C4: when a drain ends whose input consists of translatable events only, it
\* has polled all of its input, which is the tail of the arrival order, left
\* the queue empty, and emitted exactly f(e) for each event e, in that order.
C4_OrderPreserving ==
    [][\A i \in DOMAIN iters :
          (DrainEnds(i) /\ \A k \in DOMAIN DrainInput(i) : Translates(DrainInput(i)[k]))
          => LET W == DrainInput(i)
             IN  /\ iters'[i].emitted
                      = [k \in 1..Len(W) |->
                            Translation(W[k], iters[i].output_settings, iters[i].size)]
                 /\ iters'[i].polled = W
                 /\ queue' = <<>>
                 /\ W = SubSeq(arrived, Len(arrived) - Len(W) + 1, Len(arrived))]_vars

\* A drain of at least two different translatable events has ended.
C4_Witness ==
    \E i \in DOMAIN iters :
        /\ iters[i].phase = "ended"
        /\ Len(iters[i].emitted) >= 2
        /\ Len(iters[i].polled) = Len(iters[i].emitted)
        /\ iters[i].emitted[1] # iters[i].emitted[2]

\* -------------------------------------------------------------------- C5

\* C5: with a finite native queue and no arrivals, every drain the host loop
\* starts reaches end-of-sequence; when it has, it polled no more events than
\* were queued, and if none of its input translates (the empty queue
\* included) it emitted nothing.
C5_DrainTerminates ==
    /\ (iters # <<>>) ~> (iters # <<>> /\ iters[1].phase = "ended")
    /\ [](\A i \in DOMAIN iters :
            iters[i].phase = "ended"
            => /\ Len(iters[i].polled) <= Len(arrived)
               /\ (\A k \in DOMAIN DrainInput(i) : ~Translates(DrainInput(i)[k]))
                  => iters[i].emitted = <<>>)

\* A drain over two or more events, none of which translates, has ended with
\* nothing emitted.
C5_Witness ==
    \E i \in DOMAIN iters :
        /\ iters[i].phase = "ended"
        /\ Len(iters[i].polled) >= 2
        /\ \A k \in DOMAIN iters[i].polled : ~Translates(iters[i].polled[k])
        /\ iters[i].emitted = <<>>

\* -------------------------------------------------------------------- C6

\* C6: a native Quit event, and a KeyDown of the Escape key with any modifier
\* set and any repeat flag, is emitted as exactly Quit.
C6_QuitPriority ==
    \A i \in DOMAIN iters :
        LET it == iters[i]
        IN  (/\ it.polled # <<>>
             /\ \/ it.polled[1].kind = "Quit"
                \/ it.polled[1].kind = "KeyDown" /\ it.polled[1].keycode = "Escape")
            => it.emitted = <<SimQuit>>

\* A repeated Escape KeyDown with two modifiers held was emitted as Quit.
C6_Witness ==
    \E i \in DOMAIN iters :
        /\ iters[i].polled = <<EvKeyDown("Escape", {"LSHIFT", "LCTRL"}, TRUE)>>
        /\ iters[i].emitted = <<SimQuit>>

\* -------------------------------------------------------------------- C7

\* C7: Quit is an ordinary element of the sequence. The call of next() that
\* returns Quit appends it to what the sequence emitted, and every later call
\* on the same iterator with events pending polls the front of the queue and
\* emits the translations of what it polled, in order.
C7_QuitDoesNotEndDrain ==
    [][\A i \in DOMAIN iters :
          PullStep(i)
          => /\ iters'[i].ret = SimQuit
                => iters'[i].emitted = Append(iters[i].emitted, SimQuit)
             /\ ((\E k \in DOMAIN iters[i].emitted : iters[i].emitted[k] = SimQuit)
                    /\ queue # <<>>)
                => \E n \in 1..Len(queue) :
                      /\ iters'[i].polled = iters[i].polled \o SubSeq(queue, 1, n)
                      /\ queue' = SubSeq(queue, n + 1, Len(queue))
                      /\ iters'[i].emitted
                           = iters[i].emitted
                               \o Translations(SubSeq(queue, 1, n),
                                               iters[i].output_settings, iters[i].size)]_vars

\* A sequence emitted Quit first and another event after it.
C7_Witness ==
    \E i \in DOMAIN iters :
        /\ Len(iters[i].emitted) >= 2
        /\ iters[i].emitted[1] = SimQuit
        /\ iters[i].emitted[2] # SimQuit

\* -------------------------------------------------------------------- C8

\* C8: the borrow of the event pump is held exactly while an iterator lives,
\* so events() succeeds whenever the earlier iterator was dropped, drained or
\* not; dropping polls nothing; each iterator polled the latest stretch of
\* what was ever polled and emitted its translations; and what was polled so
\* far followed by what is queued is the arrival order: no native event is
\* lost or polled twice across successive sequences.
C8_LeaseReleasedAndRestartable ==
    /\ [](borrow = Len(iters))
    /\ [](totalPolled \o queue = arrived)
    /\ [](\A i \in DOMAIN iters :
            LET it == iters[i]
                n == Len(totalPolled)
            IN  /\ Len(it.polled) <= n
                /\ it.polled = SubSeq(totalPolled, n - Len(it.polled) + 1, n)
                /\ it.emitted = Translations(it.polled, it.output_settings, it.size))
    /\ [][\A s \in OutputSettingsSet :
            (iters = <<>> /\ Events(s))
            => /\ panicked' = "no"
               /\ Len(iters') = 1
               /\ iters'[1].polled = <<>>
               /\ queue' = queue]_vars
    /\ [][\A i \in DOMAIN iters :
            Drop(i) => queue' = queue /\ totalPolled' = totalPolled /\ borrow' = 0]_vars

\* A later sequence has polled and emitted events after an earlier sequence,
\* dropped since, polled some.
C8_Witness ==
    /\ Len(iters) = 1
    /\ iters[1].emitted # <<>>
    /\ Len(totalPolled) > Len(iters[1].polled)

\* -------------------------------------------------------------------- C9

\* What `window.events(&output_settings)` emits when it is called with
\* `pending` queued and pulled until its first None, nothing arriving meanwhile.
RECURSIVE DrainOf(_, _, _)
DrainOf(pending, output_settings, sz) ==
    LET res == PollLoop(pending, output_settings, sz)
    IN  IF res.ret = None
        THEN <<>>
        ELSE <<res.ret>>
               \o DrainOf(SubSeq(pending, res.polled + 1, Len(pending)), output_settings, sz)

\* C9: update leaves the native queue and the borrow as they were, and the
\* drain that follows an update at once emits exactly the translations of the
\* events that were queued, for either corrector.
C9_UpdateFabricatesNothing ==
    [][\A f \in Frames, o \in UpdateOutcomes :
          Update(f, o)
          => /\ queue' = queue
             /\ borrow' = borrow
             /\ iters' = iters
             /\ o = "ok"
                => \A s \in OutputSettingsSet :
                      DrainOf(queue', s, size') = Translations(queue, s, size)]_vars

\* The part of C9 about update alone: it touches neither the event pump nor
\* the borrow, so the drain that follows is the drain there would have been
\* without it.
C9_UpdateLeavesEventsAlone ==
    [][\A f \in Frames, o \in UpdateOutcomes :
          Update(f, o)
          => /\ queue' = queue
             /\ borrow' = borrow
             /\ iters' = iters
             /\ totalPolled' = totalPolled
             /\ \A s \in OutputSettingsSet :
                   DrainOf(queue', s, size') = DrainOf(queue, s, size)]_vars

\* ------------------------------------------------------------------- C10

\* C10: a MouseButtonDown, MouseButtonUp or MouseMotion event at raw (x, y) is
\* emitted as the matching event at output_to_display(x, y) of the
\* OutputSettings given to the events() call that made the iterator, with the
\* same button.
C10_PointerCorrected ==
    /\ [](\A i \in DOMAIN iters :
            LET it == iters[i]
            IN  (it.polled # <<>>
                   /\ it.polled[1].kind \in {"MouseButtonDown", "MouseButtonUp", "MouseMotion"})
                => LET e == it.polled[1]
                       p == output_to_display(it.output_settings, Point(e.x, e.y))
                   IN  it.emitted
                         = << CASE e.kind = "MouseButtonDown" -> SimMouseButtonDown(e.mouse_btn, p)
                                [] e.kind = "MouseButtonUp" -> SimMouseButtonUp(e.mouse_btn, p)
                                [] e.kind = "MouseMotion" -> SimMouseMove(p) >>)
    /\ [][\A s \in OutputSettingsSet :
            (iters = <<>> /\ Events(s)) => iters'[1].output_settings = s]_vars

\* A right-button press at raw (3, -2) came out at (13, -11) under the affine
\* corrector.
C10_Witness ==
    \E i \in DOMAIN iters :
        /\ iters[i].output_settings = "affine"
        /\ iters[i].polled = <<EvMouseButtonDown(3, -2, "Right")>>
        /\ iters[i].emitted = <<SimMouseButtonDown("Right", Point(13, -11))>>

\* ------------------------------------------------------------------- C11

\* The decimal, in thousandths, that an f32 of the inputs is nearest to.
Thousandths(f) ==
    CASE f = F32Zero -> 0
      [] f = F32Dot29 -> 290
      [] f = F32Half -> 500
      [] f = F32Dot7 -> 700
      [] f = F32Dot8 -> 800
      [] f = F32Dot999 -> 999
      [] f = F32One -> 1000

\* trunc(d * n) for the decimal d = thousandths / 1000, in integers.
DecimalScaled(thousandths, n) == (thousandths * n) \div 1000

IsTouch(e) == e.kind \in {"FingerDown", "FingerMotion", "FingerUp"}

\* C11: a touch event at normalized (x, y) in a window of size (width,
\* height) is emitted with the same finger id, as the matching touch event, at
\* corrector(trunc(x * width), trunc(y * height)); (0.5, 0.5) in a 320 by 240
\* window under the identity corrector comes out at (160, 120).
C11_TouchScaledThenCorrected ==
    \A i \in DOMAIN iters :
        LET it == iters[i]
        IN  (it.polled # <<>> /\ IsTouch(it.polled[1]))
            => LET e == it.polled[1]
                   scaled == Point(DecimalScaled(Thousandths(e.x), size.width),
                                   DecimalScaled(Thousandths(e.y), size.height))
                   out == it.emitted[1]
               IN  /\ Len(it.emitted) = 1
                   /\ out.kind = (CASE e.kind = "FingerDown" -> "TouchStarted"
                                    [] e.kind = "FingerMotion" -> "TouchMoved"
                                    [] e.kind = "FingerUp" -> "TouchEnded")
                   /\ out.id = e.finger_id
                   /\ out.point = output_to_display(it.output_settings, scaled)
                   /\ (e.x = F32Half /\ e.y = F32Half /\ size = [width |-> 320, height |-> 240]
                         /\ it.output_settings = "identity")
                      => out.point = Point(160, 120)

\* The end-to-end scenario: a touch begin at (0.5, 0.5) with pressure 0.8 in a
\* 320 by 240 window, identity corrector.
C11_Witness ==
    \E i \in DOMAIN iters :
        /\ size = [width |-> 320, height |-> 240]
        /\ iters[i].output_settings = "identity"
        /\ iters[i].polled = <<EvFingerDown(7, F32Half, F32Half, F32Dot8)>>
        /\ iters[i].emitted = <<SimTouchStarted(7, Point(160, 120), 80)>>

\* ------------------------------------------------------------------- C12

\* C12: every touch event of pressure p is emitted with pressure
\* trunc(p * 100), within 0..100; 0.0 gives 0, 0.5 gives 50, 1.0 gives 100 and
\* 0.999 gives 99; of two touch events of one drain, of any kinds, the one with
\* the smaller pressure is not emitted with the larger one.
C12_PressureMapping ==
    \A i \in DOMAIN iters :
        LET it == iters[i]
        IN  /\ Len(it.emitted) = Len(it.polled)
            /\ \A k \in DOMAIN it.polled :
                  LET p == it.polled[k].pressure
                      out == it.emitted[k].pressure
                  IN  /\ out = DecimalScaled(Thousandths(p), 100)
                      /\ out \in 0..100
                      /\ p = F32Zero => out = 0
                      /\ p = F32Half => out = 50
                      /\ p = F32One => out = 100
                      /\ p = F32Dot999 => out = 99
            /\ \A k1 \in DOMAIN it.polled, k2 \in DOMAIN it.polled :
                  Thousandths(it.polled[k1].pressure) <= Thousandths(it.polled[k2].pressure)
                  => it.emitted[k1].pressure <= it.emitted[k2].pressure

\* A touch end of pressure 0.999 and a touch begin of pressure 1.0 came out
\* with pressures 99 and 100.
C12_Witness ==
    \E i \in DOMAIN iters :
        /\ Len(iters[i].emitted) = 2
        /\ iters[i].polled[1].kind = "FingerUp"
        /\ iters[i].polled[1].pressure = F32Dot999
        /\ iters[i].polled[2].kind = "FingerDown"
        /\ iters[i].polled[2].pressure = F32One
        /\ iters[i].emitted[1].pressure = 99
        /\ iters[i].emitted[2].pressure = 100

\* ------------------------------------------------------------------- C13

\* C13: a MouseWheel event with delta (dx, dy) and direction d is emitted as
\* MouseWheel with exactly (dx, dy) and d, whatever the corrector of the
\* iterator and the size of the window.
C13_WheelUnchanged ==
    \A i \in DOMAIN iters :
        LET it == iters[i]
        IN  (it.polled # <<>> /\ it.polled[1].kind = "MouseWheel")
            => it.emitted
                 = <<SimMouseWheel(Point(it.polled[1].x, it.polled[1].y),
                                   it.polled[1].direction)>>

\* A flipped wheel event of delta (-1, 2) came out unchanged under the affine
\* corrector.
C13_Witness ==
    \E i \in DOMAIN iters :
        /\ iters[i].output_settings = "affine"
        /\ iters[i].polled = <<EvMouseWheel(-1, 2, "Flipped")>>
        /\ iters[i].emitted = <<SimMouseWheel(Point(-1, 2), "Flipped")>>

\* What one call of next() on the i-th iterator polled: the number of events it
\* took from the queue in this step.
PolledInStep(i) == Len(iters'[i].polled) - Len(iters[i].polled)

\* What a call of next() takes from the queue, whatever made it stop: a prefix
\* of the queue whose events before the last are all of kinds no arm handles,
\* at most one emitted event, and when it emits, the translation of the last
\* event of the prefix. Nothing is held outside the queue: the events polled so
\* far and the events still queued are all that arrived.
PullTakesOnlyWhatItHandles(i) ==
    LET it == iters[i]
        it2 == iters'[i]
        n == PolledInStep(i)
    IN  /\ n \in 0..Len(queue)
        /\ Len(it2.emitted) <= Len(it.emitted) + 1
        /\ it2.polled = it.polled \o SubSeq(queue, 1, n)
        /\ queue' = SubSeq(queue, n + 1, Len(queue))
        /\ totalPolled' \o queue' = arrived
        /\ \A k \in 1..(n - 1) : queue[k].kind = "Other"
        /\ it2.ret # None =>
              /\ n >= 1
              /\ Translates(queue[n])
              /\ it2.ret = Translation(queue[n], it.output_settings, it.size)
              /\ it2.emitted = Append(it.emitted, it2.ret)
        /\ it2.ret = None => it2.emitted = it.emitted

\* C14: draining is lazy and a call of next() emits at most one event. The call
\* polls events one at a time, discards events of unhandled kinds within the
\* call and stops at the first event that translates: it ends either by
\* emitting that event's translation or, with no such event, with the queue
\* empty. After it emits, exactly the events up to and including the translated
\* one have left the queue, every later event is still queued, and no event is
\* held anywhere else.
C14_LazyOneEventPerPull ==
    [][\A i \in DOMAIN iters : PullStep(i) =>
          /\ PullTakesOnlyWhatItHandles(i)
          /\ iters'[i].ret = None => queue' = <<>>]_vars

\* The part of C14 about what a call takes from the queue holds of the code:
\* no call polls past the event it translates, and no call emits twice.
C14_NoPollingAhead ==
    [][\A i \in DOMAIN iters : PullStep(i) => PullTakesOnlyWhatItHandles(i)]_vars

\* C15: translation is deterministic and has no hidden state. What a call of
\* next() returns is a function of the last event it polled, the logical size
\* and the corrector the iterator was created with, and of nothing else: not of
\* the events polled before, of earlier drains, or of updates in between. A call
\* polls nothing only when the queue is empty, and leaves the iterator's
\* corrector and size as they were.
C15_TranslationDeterministic ==
    [][\A i \in DOMAIN iters : PullStep(i) =>
          LET it == iters[i]
              it2 == iters'[i]
              n == PolledInStep(i)
          IN  /\ it2.output_settings = it.output_settings
              /\ it2.size = it.size
              /\ it.size = size
              /\ (n = 0) <=> (queue = <<>>)
              /\ it2.ret = IF n = 0 THEN None
                           ELSE IF Translates(queue[n])
                                THEN Translation(queue[n], it.output_settings, size)
                                ELSE None]_vars

\* C15 witness: after an update and an earlier drain that polled the same
\* native event, a later iterator polled that event again behind another one
\* and returned its translation.
C15_Witness ==
    /\ Len(iters) = 1
    /\ screen # Blank
    /\ LET it == iters[1]
           m == Len(it.polled)
       IN  /\ m >= 2
           /\ Len(it.emitted) = 2
           /\ Len(totalPolled) > m
           /\ totalPolled[1] = it.polled[m]
           /\ it.polled[m - 1] = it.polled[m]
           /\ Translates(it.polled[m])
           /\ it.ret = Translation(it.polled[m], it.output_settings, size)

\* C16: errors of update are fatal and propagate at once. update uploads the
\* texture, then copies it onto the canvas, then presents, in that order: when
\* the upload fails nothing is copied or presented, when the copy fails nothing
\* is presented although the texture was uploaded, and in both cases update
\* panics; only an update without error presents the frame and returns. After
\* the panic the window takes no further step.
C16_UpdateErrorsFatal ==
    [][/\ panicked = "no"
       /\ \A f \in Frames, o \in UpdateOutcomes :
             Update(f, o) =>
                CASE o = "upload_err" ->
                       /\ panicked' = "update"
                       /\ canvas' = canvas
                       /\ screen' = screen
                  [] o = "copy_err" ->
                       /\ panicked' = "update"
                       /\ texture'.data = f
                       /\ canvas' = canvas
                       /\ screen' = screen
                  [] OTHER ->
                       /\ panicked' = "no"
                       /\ texture'.data = f
                       /\ canvas' = f
                       /\ screen' = f]_vars

\* C16 witness: an update presented frameA, a later update uploaded frameB and
\* failed at the copy: it panicked with frameA still on the canvas and the
\* screen.
C16_Witness ==
    /\ panicked = "update"
    /\ texture.data = "frameB"
    /\ canvas = "frameA"
    /\ screen = "frameA"

\* C17: the texture and the logical size are touched only by update. events()
\* and every call of next() leave both unchanged, only an update step changes
\* the texture, and the size never changes: the texture keeps the dimensions of
\* the size given at construction, every upload used the row stride width * 3
\* of that size, and every iterator scales with that size.
C17_TextureAndSizeOnlyByUpdate ==
    /\ [][/\ size' = size
          /\ texture' # texture => \E f \in Frames, o \in UpdateOutcomes : Update(f, o)
          /\ ((\E s \in OutputSettingsSet : Events(s)) \/ (\E i \in DOMAIN iters : PullStep(i)))
                => texture' = texture]_vars
    /\ [](/\ texture.width = size.width
          /\ texture.height = size.height
          /\ texture.data # Blank => texture.pitch = size.width * 3
          /\ \A i \in DOMAIN iters : iters[i].size = size)

\* C17 witness: after an update that uploaded frameB, events() was called and
\* its iterator polled an event; the texture still holds frameB with the stride
\* of the construction size.
C17_Witness ==
    /\ texture = UploadTexture(NewTexture(size), "frameB", size.width * 3)
    /\ screen = "frameB"
    /\ iters # <<>>
    /\ iters[1].polled # <<>>
    /\ iters[1].size = size

\* C18: no drain emits a touch-cancelled event. Whatever native event is
\* queued, under every corrector and size, nothing an iterator returned or
\* emitted is of the TouchCancelled variant, and a native touch event yields
\* TouchStarted, TouchMoved or TouchEnded, according to its kind.
C18_NeverTouchCancelled ==
    \A i \in DOMAIN iters :
        LET it == iters[i]
        IN  /\ it.ret.kind # "TouchCancelled"
            /\ \A k \in DOMAIN it.emitted : it.emitted[k].kind # "TouchCancelled"
            /\ (it.polled # <<>> /\ IsTouch(it.polled[1])) =>
                  /\ Len(it.emitted) = 1
                  /\ it.emitted[1].kind =
                        CASE it.polled[1].kind = "FingerDown" -> "TouchStarted"
                          [] it.polled[1].kind = "FingerMotion" -> "TouchMoved"
                          [] it.polled[1].kind = "FingerUp" -> "TouchEnded"

\* C18 witness: an iterator polled a finger lift and emitted TouchEnded.
C18_Witness ==
    \E i \in DOMAIN iters :
        /\ iters[i].polled # <<>>
        /\ iters[i].polled[1].kind = "FingerUp"
        /\ iters[i].emitted # <<>>
        /\ iters[i].emitted[1].kind = "TouchEnded"

\* An iterator whose next() has returned None at least once.
Exhausted(it) == it.phase \in {"ended", "resumed"}

\* C19: the lease outlives exhaustion. An iterator that has returned None still
\* holds the borrow of the event pump until it is dropped, so a call of
\* events() made while such an iterator is live panics and creates no iterator.
C19_LeaseOutlivesExhaustion ==
    /\ []((\E i \in DOMAIN iters : Exhausted(iters[i])) => borrow = 1)
    /\ [][\A s \in OutputSettingsSet :
             ((\E i \in DOMAIN iters : Exhausted(iters[i])) /\ Events(s))
             => /\ panicked' = "events"
                /\ iters' = iters
                /\ borrow' = borrow]_vars

\* C19 witness: events() was called while the only iterator, which had polled
\* the queue empty and returned None, was still live: the call panicked.
C19_Witness ==
    /\ panicked = "events"
    /\ Len(iters) = 1
    /\ iters[1].phase = "ended"
    /\ iters[1].polled # <<>>
    /\ queue = <<>>

\* C20: the iterator is not fused. A call of next() on a live iterator that
\* has already returned None polls the queue again: with events queued it takes
\* at least one of them, discards unhandled kinds as any call does, and when
\* the event it stops at translates it emits that event's translation.
C20_NotFused ==
    [][\A i \in DOMAIN iters : (PullStep(i) /\ Exhausted(iters[i])) =>
          LET it == iters[i]
              it2 == iters'[i]
              n == PolledInStep(i)
          IN  /\ (n = 0) <=> (queue = <<>>)
              /\ queue' = SubSeq(queue, n + 1, Len(queue))
              /\ \A k \in 1..(n - 1) : queue[k].kind = "Other"
              /\ (n >= 1 /\ Translates(queue[n])) =>
                    /\ it2.ret = Translation(queue[n], it.output_settings, it.size)
                    /\ it2.emitted = Append(it.emitted, it2.ret)
              /\ (n >= 1 /\ queue[n].kind = "Other") => queue' = <<>>]_vars

\* C20 witness: an iterator returned None before it had emitted anything, and a
\* later call of next() on it emitted the translation of an event it polled.
C20_Witness ==
    \E i \in DOMAIN iters :
        LET it == iters[i]
        IN  /\ it.phase = "resumed"
            /\ it.polled # <<>>
            /\ Translates(it.polled[Len(it.polled)])
            /\ it.ret = Translation(it.polled[Len(it.polled)], it.output_settings, it.size)
            /\ it.emitted = <<it.ret>>

====
